---- MODULE Spec2Model ----
(***************************************************************************)
(* Website-to-podcast pipeline (main.py and the podcast/ package):         *)
(* SegmentSource (parse_clips_json), AudioStage (generate_all_audio),      *)
(* VideoStage (generate_all_videos and its lip-sync poll loop),            *)
(* Compositor (compile_podcast), CaptionStage (add_captions_with_zapcap)   *)
(* and the orchestrator full_pipeline.                                     *)
(*                                                                         *)
(* Python lists are sequences; a list position p (0-based) is element p+1. *)
(* Text is a sequence of one-character strings so that strip() is          *)
(* computed, not assumed.                                                  *)
(***************************************************************************)
EXTENDS Integers, Sequences, FiniteSets, TLC

VARIABLES
    entry,                \* the function the run was started through
    pc,                   \* position of the run (orchestrator state)
    error,                \* exception that ended the run, "none" otherwise
    clip_index,           \* full_pipeline / parse_clips_json argument
    clips_result,         \* result of generate_clips_from_transcript
    assets,               \* os.path.exists of each speaker's base video
    hashseed,             \* this process's hash(text) % 10000, per text
    segments,             \* result of parse_clips_json
    audio_files,          \* list built by generate_all_audio
    video_files,          \* list built by generate_all_videos
    vpc,                  \* position inside generate_video_for_segment
    vjobs,                \* lip-sync jobs submitted so far, in order
    command,              \* argv handed to subprocess.run by compile_podcast
    compiled_video_path,  \* result of compile_podcast
    api_key,              \* ZAPCAP_API_KEY is set
    cjob,                 \* the captioning job, once submitted
    attempts,             \* add_captions_with_zapcap's loop counter
    caption_error,        \* exception absorbed by full_pipeline, or "none"
    final_path,           \* result of full_pipeline
    faults,               \* helper operations of steps 1 to 3 that fail in this run
    absorbed,             \* failures that were printed and not raised, so far
    result,               \* subprocess.run's outcome for the ffmpeg command
    raised,               \* what the exception in error carries
    generation_status,    \* generation.status last read by generate_video_for_segment
    kontext               \* the Kontext client and its current call

vars == <<entry, pc, error, clip_index, clips_result, assets, hashseed,
          segments, audio_files, video_files, vpc, vjobs, command,
          compiled_video_path, api_key, cjob, attempts, caption_error,
          final_path, faults, absorbed, result, raised, generation_status,
          kontext>>

----------------------------------------------------------------------------
(* Bounds of the model *)

MaxLines == 2        \* dialogue lines of a clip, parse_clips_json called directly
PipeMaxLines == 2    \* dialogue lines of a clip, full_pipeline
MaxClips == 1        \* clips in clips_ranked
MaxAudio == 2        \* audio artifacts, generate_all_videos called directly
MaxVideos == 3       \* video artifacts, compile_podcast called directly
MaxRawClips == 3     \* clips in clips_ranked, generate_clips_from_transcript called directly

(* Program constants *)

max_attempts == 300
target_width == 720
target_height == 1280

----------------------------------------------------------------------------
(* Text *)

Whitespace == {" ", "\t", "\n"}

RECURSIVE LStrip(_)
LStrip(s) ==
    IF s = <<>> THEN s
    ELSE IF Head(s) \in Whitespace THEN LStrip(Tail(s)) ELSE s

RECURSIVE RStrip(_)
RStrip(s) ==
    IF s = <<>> THEN s
    ELSE IF s[Len(s)] \in Whitespace THEN RStrip(SubSeq(s, 1, Len(s) - 1)) ELSE s

\* str.strip()
Strip(s) == RStrip(LStrip(s))

Texts == { <<>>, <<" ">>, <<"h", "i">>, <<" ", "b", "y", "e", " ">> }

SpeakerLabels == {"Speaker A", "Speaker B", "Narrator"}

\* a dialogue line; the model's output may leave the speaker label out
Lines == [speaker : SpeakerLabels, text : Texts] \cup [text : {<<"h", "i">>}]

\* the lines the full pipeline entry draws its clips from
PipeLines ==
    { [speaker |-> "Speaker A", text |-> <<"h", "i">>],
      [speaker |-> "Speaker B", text |-> <<" ", "b", "y", "e", " ">>],
      [speaker |-> "Speaker B", text |-> <<" ">>],
      [speaker |-> "Narrator", text |-> <<"h", "i">>] }

SeqsUpTo(S, n) == UNION { [1..k -> S] : k \in 0..n }

Range(s) == { s[k] : k \in DOMAIN s }

\* dict.get(key, default)
Get(d, key, default) == IF key \in DOMAIN d THEN d[key] ELSE default

----------------------------------------------------------------------------
(* SegmentSource: script_parser.parse_clips_json *)

MapSpeaker(speaker) ==
    IF speaker = "Speaker A" THEN "person1"
    ELSE IF speaker = "Speaker B" THEN "person2"
    ELSE speaker

\* faulty variant of ConvertLines: the "if text.strip()" filter is missing
RECURSIVE ConvertLinesKeepBlank(_)
ConvertLinesKeepBlank(dialogue_lines) ==
    IF dialogue_lines = <<>> THEN <<>>
    ELSE LET line == Head(dialogue_lines)
         IN  <<[speaker |-> MapSpeaker(Get(line, "speaker", "Unknown")),
                text |-> Strip(Get(line, "text", <<>>))]>>
             \o ConvertLinesKeepBlank(Tail(dialogue_lines))

\* the for loop over dialogue_lines: append the non-blank lines, stripped
RECURSIVE ConvertLines(_)
ConvertLines(dialogue_lines) ==
    IF dialogue_lines = <<>> THEN <<>>
    ELSE LET line == Head(dialogue_lines)
             speaker == MapSpeaker(Get(line, "speaker", "Unknown"))
             text == Get(line, "text", <<>>)
             rest == ConvertLines(Tail(dialogue_lines))
         IN  IF Strip(text) # <<>>
             THEN <<[speaker |-> speaker, text |-> Strip(text)]>> \o rest
             ELSE rest

\* clips[clip_index] with Python's negative indices
PyIndexOk(s, k) == k < Len(s) /\ k >= -Len(s)
PyIndex(s, k) == IF k >= 0 THEN s[k + 1] ELSE s[Len(s) + k + 1]

parse_clips_json(clips_data, index) ==
    IF "clips_ranked" \notin DOMAIN clips_data
    THEN [ok |-> FALSE, error |-> "ValueError", segments |-> <<>>]
    ELSE LET clips == clips_data.clips_ranked IN
         IF clips = <<>> \/ Len(clips) <= index
         THEN [ok |-> FALSE, error |-> "ValueError", segments |-> <<>>]
         ELSE IF ~PyIndexOk(clips, index)
         THEN [ok |-> FALSE, error |-> "IndexError", segments |-> <<>>]
         ELSE LET dialogue_lines == Get(PyIndex(clips, index), "dialogue_lines", <<>>) IN
              IF dialogue_lines = <<>>
              THEN [ok |-> FALSE, error |-> "ValueError", segments |-> <<>>]
              ELSE [ok |-> TRUE, error |-> "none",
                    segments |-> ConvertLines(dialogue_lines)]

----------------------------------------------------------------------------
(* File paths: os.path.join(dir, stem + "." + ext), the stem kept as the   *)
(* list of the pieces the f-string joins                                   *)

Path(dir, stem, ext) == [dir |-> dir, stem |-> stem, ext |-> ext]

\* os.path.abspath
AbsPath(p) == [p EXCEPT !.dir = <<"cwd">> \o p.dir]

\* the stripped texts a segment can carry, and the values hash(text) % 10000
\* can take for them in one process (the modulus scaled down to two values)
HashDomain == { Strip(t) : t \in Texts } \ { <<>> }
HashRange == {0, 1}

\* one process in which the two texts hash apart and one in which they collide
HashSeeds == { h \in [HashDomain -> HashRange] : h[<<"h", "i">>] = 0 }

\* audio_generator.py: output_path of generate_audio_for_segment
AudioPath(speaker, h, output_dir) == Path(<<output_dir>>, <<speaker, ToString(h)>>, "mp3")

\* video_generator.py: base_name + "_synced.mp4"
VideoPath(audio_path, output_dir) ==
    Path(<<output_dir>>, Append(audio_path.stem, "_synced"), "mp4")

\* faulty variant of CaptionedPath: the download is written over the input video
CaptionedPathInPlace(video_path, output_dir) == video_path

\* main.py: base_name + "_captioned.mp4"
CaptionedPath(video_path, output_dir) ==
    Path(<<output_dir>>, Append(video_path.stem, "_captioned"), "mp4")

\* main.py: output_name of full_pipeline, joined with output_dir by compile_podcast
PipelineOutputPath(index) ==
    Path(<<"output">>, <<"app", "_clip_", ToString(index), "timestamp">>, "mp4")

\* video_compiler.py: default output_name
DefaultOutputPath == Path(<<"output">>, <<"podcast_", "timestamp">>, "mp4")

NoPath == [dir |-> <<>>, stem |-> <<>>, ext |-> "none"]

----------------------------------------------------------------------------
(* AudioStage: audio_generator.py *)

VOICE_MAPPINGS == [person1 |-> "6OzrBCQf8cjERkYgzSg8", person2 |-> "VCgLBmBjldJmfphyB8sZ"]

\* faulty variant of AudioRecord: the 1-based number of the progress message is stored
AudioRecordOneBased(k, segment, audio_path) ==
    [segment_index |-> k + 1, speaker |-> segment.speaker, text |-> segment.text,
     audio_path |-> audio_path]

\* the record generate_all_audio appends for the segment at list position k
AudioRecord(k, segment, audio_path) ==
    [segment_index |-> k, speaker |-> segment.speaker, text |-> segment.text,
     audio_path |-> audio_path]

----------------------------------------------------------------------------
(* VideoStage: video_generator.py *)

VIDEO_MAPPINGS == [person1 |-> "podcast/assets/man_1.mp4", person2 |-> "podcast/assets/man_2.mp4"]

\* not base_video_path or not os.path.exists(base_video_path)
BaseVideoMissing(speaker, exists) ==
    speaker \notin DOMAIN VIDEO_MAPPINGS \/ ~exists[speaker]

\* statuses of a lip-sync generation the loop can be given
SyncStatuses == {"PENDING", "PROCESSING", "COMPLETED", "ERROR", "FAILED", "REJECTED"}

\* faulty variant of SyncLoopStep: the output URL is fetched as soon as it is there
SyncLoopStepEager(status, has_url) ==
    IF has_url THEN "download"
    ELSE IF status = "COMPLETED" THEN "raise_no_url"
    ELSE IF status = "ERROR" THEN "raise_failed"
    ELSE "sleep"

\* faulty variant of SyncLoopStep: a completed generation without URL is polled again
SyncLoopStepRepoll(status, has_url) ==
    IF status = "COMPLETED" /\ has_url THEN "download"
    ELSE IF status = "ERROR" THEN "raise_failed"
    ELSE "sleep"

\* what one iteration of the while True loop does with a polled status
SyncLoopStep(status, has_url) ==
    IF status = "COMPLETED"
    THEN IF has_url THEN "download" ELSE "raise_no_url"
    ELSE IF status = "ERROR" THEN "raise_failed"
    ELSE "sleep"

\* the job status the loop has observed, in the vocabulary of the data model
SyncObserved(status) ==
    IF status = "COMPLETED" THEN "completed"
    ELSE IF status = "ERROR" THEN "failed"
    ELSE "pending"

\* faulty variant of VideoRecord: the 1-based number of the progress message is stored
VideoRecordOneBased(audio_info, video_path) ==
    [segment_index |-> audio_info.segment_index + 1, speaker |-> audio_info.speaker,
     audio_path |-> audio_info.audio_path, video_path |-> video_path]

\* the record generate_all_videos appends for an audio artifact
VideoRecord(audio_info, video_path) ==
    [segment_index |-> audio_info.segment_index, speaker |-> audio_info.speaker,
     audio_path |-> audio_info.audio_path, video_path |-> video_path]

\* a submitted job: the status last observed, whether the completed response
\* carried a result URL, the downloads and the failed status requests so far
NewJob(k) == [segment |-> k, status |-> "submitted", has_url |-> FALSE,
              downloads |-> 0, poll_errors |-> 0]

\* the job after a status response has been read
Observed(job, observed, has_url) ==
    [job EXCEPT !.status = observed, !.has_url = (observed = "completed" /\ has_url)]

Terminal == {"completed", "failed"}

----------------------------------------------------------------------------
(* Compositor: video_compiler.compile_podcast *)

\* faulty variant of SortedVideos: the list is used in the order it was given
UnsortedVideos(files) == files

\* sorted(video_files, key=segment_index): stable, by insertion
RECURSIVE InsertByIndex(_, _)
InsertByIndex(x, s) ==
    IF s = <<>> THEN <<x>>
    ELSE IF s[Len(s)].segment_index <= x.segment_index THEN Append(s, x)
    ELSE Append(InsertByIndex(x, SubSeq(s, 1, Len(s) - 1)), s[Len(s)])

RECURSIVE SortedVideos(_)
SortedVideos(files) ==
    IF files = <<>> THEN <<>>
    ELSE InsertByIndex(files[Len(files)], SortedVideos(SubSeq(files, 1, Len(files) - 1)))

\* faulty variant of EmptyInput: the guard is missing
EmptyInputUnchecked(files) == FALSE

\* "if not video_files"
EmptyInput(files) == files = <<>>

\* "[i:v]scale=W:H:force_original_aspect_ratio=decrease,pad=W:H:...,setsar=1[vi]"
ScalingPart(k) ==
    [input |-> k, scale |-> <<target_width, target_height>>,
     pad |-> <<target_width, target_height>>, setsar |-> 1, output |-> k]

\* faulty variant of ConcatInput: every clip is paired with the first input's audio
ConcatInputFirstAudio(i) == [video |-> i, audio |-> 0]

\* "[v{i}][{i}:a:0]": the scaled video i with the first audio stream of input i
ConcatInput(i) == [video |-> i, audio |-> i]

\* faulty variant of BuildCommand: the concat inputs are labelled with the
\* segment_index of the list as it was given
BuildCommandListOrder(files, output_path) ==
    LET sorted_videos == SortedVideos(files)
        n == Len(sorted_videos)
    IN  [input_args |-> [k \in 1..n |-> AbsPath(sorted_videos[k].video_path)],
         scaling_parts |-> [k \in 1..n |-> ScalingPart(k - 1)],
         concat_inputs |-> [k \in 1..n |-> ConcatInput(files[k].segment_index)],
         num_segments |-> Len(files),
         concat_outputs |-> [v |-> 1, a |-> 1],
         output |-> output_path]

\* the argv of the ffmpeg call: inputs in sorted order, then the filter graph
BuildCommand(files, output_path) ==
    LET sorted_videos == SortedVideos(files)
        n == Len(sorted_videos)
    IN  [input_args |-> [k \in 1..n |-> AbsPath(sorted_videos[k].video_path)],
         scaling_parts |-> [k \in 1..n |-> ScalingPart(k - 1)],
         concat_inputs |-> [k \in 1..n |-> ConcatInput(k - 1)],
         num_segments |-> Len(files),
         concat_outputs |-> [v |-> 1, a |-> 1],
         output |-> output_path]

NoCommand == [input_args |-> <<>>, scaling_parts |-> <<>>, concat_inputs |-> <<>>,
              num_segments |-> -1, concat_outputs |-> [v |-> 0, a |-> 0],
              output |-> NoPath]

\* the '-filter_complex' argument: the scaling parts, the concat inputs,
\* "concat=n=N:v=1:a=1"
FilterGraph(cmd) ==
    [scaling_parts |-> cmd.scaling_parts, concat_inputs |-> cmd.concat_inputs,
     num_segments |-> cmd.num_segments, concat_outputs |-> cmd.concat_outputs]

----------------------------------------------------------------------------
(* CaptionStage: main.add_captions_with_zapcap *)

ZapcapStatuses == {"pending", "transcribing", "completed", "failed"}

\* faulty variant of ZapcapLoopStep: the 'failed' branch is missing
ZapcapLoopStepNoFailed(status, has_url) ==
    IF status = "completed"
    THEN IF has_url THEN "download" ELSE "raise_key_error"
    ELSE "sleep"

\* what one iteration of the while attempts < max_attempts loop does
ZapcapLoopStep(status, has_url) ==
    IF status = "completed"
    THEN IF has_url THEN "download" ELSE "raise_key_error"
    ELSE IF status = "failed" THEN "raise_failed"
    ELSE "sleep"

ZapcapObserved(status) ==
    IF status = "completed" THEN "completed"
    ELSE IF status = "failed" THEN "failed"
    ELSE "pending"

NoJob == [segment |-> -1, status |-> "none", has_url |-> FALSE,
          downloads |-> 0, poll_errors |-> 0]

----------------------------------------------------------------------------
(* Inputs *)

NoResult == [error |-> "none"]

\* no process has run, no exception carries anything
NoRun == [returncode |-> 0, stderr |-> "none"]

\* no Kontext client has been constructed
NoKontext == [state |-> "none"]

Clip(rank, dialogue_lines) ==
    [rank |-> rank, dialogue_lines |-> dialogue_lines, enhanced |-> FALSE]

\* the clip as the enhancement request returns it
Enhanced(clip) == [clip EXCEPT !.enhanced = TRUE]

\* the helper operations whose failure is tried: the Kontext lookup of step 1,
\* the enhancement request of the clip at position arg, the debug file of step 3
Fault(op, arg) == [op |-> op, arg |-> arg]

FaultOps ==
    { Fault("get_kontext_context", 0), Fault("save_clips_to_file", 0) }
        \cup { Fault("enhance_clip", p) : p \in 1..MaxClips }

\* results of generate_clips_from_transcript: None, or n clips of one dialogue
ClipResults ==
    { NoResult } \cup
    { [clips_ranked |-> [p \in 1..n |-> Clip(p, d)]] :
        n \in 0..MaxClips, d \in SeqsUpTo(PipeLines, PipeMaxLines) }

ClipIndexArgs == (-1)..MaxClips

Speakers == {"person1", "person2"}

AllAssets == [s \in Speakers |-> TRUE]

ZeroHash == [t \in HashDomain |-> 0]

\* audio artifacts handed to generate_all_videos
AudioArtifacts ==
    { AudioRecord(k, [speaker |-> sp, text |-> <<"h", "i">>], AudioPath(sp, 0, "temp")) :
        k \in 0..MaxAudio, sp \in Speakers \cup {"Narrator"} }

\* video artifacts handed to compile_podcast, segment_index pairwise distinct
VideoArtifacts ==
    { VideoRecord(AudioRecord(k, [speaker |-> sp, text |-> <<"h", "i">>],
                              AudioPath(sp, h, "temp")),
                  VideoPath(AudioPath(sp, h, "temp"), "temp")) :
        k \in 0..(MaxVideos - 1), sp \in Speakers, h \in HashRange }

DistinctIndex(files) ==
    \A a, b \in DOMAIN files : a # b => files[a].segment_index # files[b].segment_index

\* nothing has been printed, run or called yet
InitAux ==
    /\ absorbed = {}
    /\ result = NoRun
    /\ raised = NoRun
    /\ generation_status = "none"
    /\ kontext = NoKontext

InitCommon ==
    /\ InitAux
    /\ error = "none"
    /\ segments = <<>>
    /\ audio_files = <<>>
    /\ video_files = <<>>
    /\ vpc = "idle"
    /\ vjobs = <<>>
    /\ command = NoCommand
    /\ compiled_video_path = NoPath
    /\ cjob = NoJob
    /\ attempts = 0
    /\ caption_error = "none"
    /\ final_path = NoPath

\* python main.py <website_url> <transcript_file> --clip-index N
InitPipeline ==
    /\ entry = "full_pipeline"
    /\ pc = "Analyzing"
    /\ clip_index \in ClipIndexArgs
    /\ clips_result = NoResult
    /\ assets \in [Speakers -> BOOLEAN]
    /\ hashseed \in HashSeeds
    /\ api_key \in BOOLEAN
    /\ faults = {}
    /\ InitCommon

\* parse_clips_json(clips_data, clip_index), its segments handed to generate_all_audio
InitParse ==
    /\ entry = "parse_clips_json"
    /\ pc = "Scripting"
    /\ clip_index \in (-1)..1
    /\ clips_result \in { [clips_ranked |-> <<Clip(1, d)>>] : d \in SeqsUpTo(Lines, MaxLines) }
    /\ assets = AllAssets
    /\ hashseed = ZeroHash
    /\ api_key = TRUE
    /\ faults = {}
    /\ InitCommon

\* generate_all_videos(audio_files)
InitVideos ==
    /\ entry = "generate_all_videos"
    /\ pc = "VideoSynthesis"
    /\ clip_index = 0
    /\ clips_result = NoResult
    /\ assets \in [Speakers -> BOOLEAN]
    /\ hashseed = ZeroHash
    /\ api_key = TRUE
    /\ error = "none"
    /\ segments = <<>>
    /\ audio_files \in SeqsUpTo(AudioArtifacts, MaxAudio)
    /\ video_files = <<>>
    /\ vpc = "idle"
    /\ vjobs = <<>>
    /\ command = NoCommand
    /\ compiled_video_path = NoPath
    /\ cjob = NoJob
    /\ attempts = 0
    /\ caption_error = "none"
    /\ final_path = NoPath
    /\ faults = {}
    /\ InitAux

\* compile_podcast(video_files), the artifacts in any order
InitCompile ==
    /\ entry = "compile_podcast"
    /\ pc = "Composing"
    /\ clip_index = 0
    /\ clips_result = NoResult
    /\ assets = AllAssets
    /\ hashseed = ZeroHash
    /\ api_key = TRUE
    /\ error = "none"
    /\ segments = <<>>
    /\ audio_files = <<>>
    /\ video_files \in { f \in SeqsUpTo(VideoArtifacts, MaxVideos) : DistinctIndex(f) }
    /\ vpc = "idle"
    /\ vjobs = <<>>
    /\ command = NoCommand
    /\ compiled_video_path = NoPath
    /\ cjob = NoJob
    /\ attempts = 0
    /\ caption_error = "none"
    /\ final_path = NoPath
    /\ faults = {}
    /\ InitAux

\* caption_generator.add_captions(video_path), compiled_video_path being video_path
InitCaptions ==
    /\ entry = "add_captions"
    /\ pc = "Captioning"
    /\ clip_index = 0
    /\ clips_result = NoResult
    /\ assets = AllAssets
    /\ hashseed = ZeroHash
    /\ api_key \in BOOLEAN
    /\ error = "none"
    /\ segments = <<>>
    /\ audio_files = <<>>
    /\ video_files = <<>>
    /\ vpc = "idle"
    /\ vjobs = <<>>
    /\ command = NoCommand
    /\ compiled_video_path = DefaultOutputPath
    /\ cjob = NoJob
    /\ attempts = 0
    /\ caption_error = "none"
    /\ final_path = NoPath
    /\ faults = {}
    /\ InitAux

\* full_pipeline in a run where helper operations fail (ZAPCAP_API_KEY unset)
InitFaulty ==
    /\ entry = "full_pipeline"
    /\ pc = "Analyzing"
    /\ clip_index = 0
    /\ clips_result = NoResult
    /\ assets = AllAssets
    /\ hashseed = ZeroHash
    /\ api_key = FALSE
    /\ faults \in (SUBSET FaultOps) \ {{}}
    /\ InitCommon

Init == InitPipeline \/ InitFaulty \/ InitParse \/ InitVideos \/ InitCompile \/ InitCaptions

----------------------------------------------------------------------------
(* Orchestrator: main.full_pipeline, steps 1 to 5 *)

\* where the run goes when a stage has returned
Continue(next) == IF entry = "full_pipeline" THEN next ELSE "Returned"

frontVars == <<segments, audio_files, video_files, vpc, vjobs, command,
               compiled_video_path, cjob, attempts, caption_error, final_path,
               result, raised, generation_status>>
envVars == <<entry, assets, hashseed, api_key, faults, kontext>>

\* faulty variant of Raise: the handler prints the error and the run goes on
RaiseSwallowed(kind) == pc' = pc /\ error' = kind

\* an exception no stage handles: each stage's "except Exception" prints and
\* re-raises, full_pipeline has no handler, main reports the failure and exits
Raise(kind) == pc' = "Failed" /\ error' = kind

\* Step 1: crawl_and_analyze_website; a falsy analysis raises
\* crawl_website returns None, or analyze_website_content is called: it asks
\* get_kontext_context first, whose failure is printed and answered with ""
Analyze ==
    /\ pc = "Analyzing"
    /\ \E scraped_content \in BOOLEAN, app_analysis \in BOOLEAN :
        /\ absorbed' = (IF scraped_content
                        THEN absorbed \cup ({Fault("get_kontext_context", 0)} \cap faults)
                        ELSE absorbed)
        /\ IF scraped_content /\ app_analysis
           THEN pc' = "LoadingTranscript" /\ error' = error
           ELSE Raise("AnalysisFailed")
    /\ UNCHANGED <<clip_index, clips_result, envVars, frontVars>>

\* Step 2: the transcript file must exist
LoadTranscript ==
    /\ pc = "LoadingTranscript"
    /\ \E exists \in BOOLEAN :
        IF exists
        THEN pc' = "ClipSelection" /\ error' = error
        ELSE Raise("TranscriptNotFound")
    /\ UNCHANGED <<clip_index, clips_result, envVars, frontVars, absorbed>>

\* the index full_pipeline goes on with: "if clip_index >= clips_count: clip_index = 0"
ValidatedClipIndex(index, clips_count) == IF index >= clips_count THEN 0 ELSE index

\* enhance_clip: the model's answer, or the clip itself when the request fails
enhance_clip(clip, p) ==
    IF Fault("enhance_clip", p) \in faults THEN clip ELSE Enhanced(clip)

\* faulty variant of EnhanceClips: a clip whose request failed is left out
EnhanceClipsDropFailed(raw) ==
    IF "clips_ranked" \in DOMAIN raw
    THEN LET kept == { p \in DOMAIN raw.clips_ranked : Fault("enhance_clip", p) \notin faults }
             nth(k) == CHOOSE p \in kept : Cardinality({ q \in kept : q < p }) = k - 1
         IN  [raw EXCEPT !.clips_ranked =
                 [k \in 1..Cardinality(kept) |-> Enhanced(raw.clips_ranked[nth(k)])]]
    ELSE raw

\* generate_clips_from_transcript: the enhancement loop over result["clips_ranked"]
EnhanceClips(raw) ==
    IF "clips_ranked" \in DOMAIN raw
    THEN [raw EXCEPT !.clips_ranked =
            [p \in DOMAIN raw.clips_ranked |-> enhance_clip(raw.clips_ranked[p], p)]]
    ELSE raw

\* the enhancement requests that failed for this result
EnhanceFailures(raw) ==
    { f \in faults : f.op = "enhance_clip" /\ f.arg \in DOMAIN Get(raw, "clips_ranked", <<>>) }

\* Step 3: generate the clips, save them, validate the index, select the clip
GenerateClips ==
    /\ pc = "ClipSelection"
    /\ \E raw \in ClipResults :
        LET generated == EnhanceClips(raw) IN
        /\ clips_result' = generated
        /\ IF Get(generated, "clips_ranked", <<>>) = <<>>
           THEN /\ Raise("ClipGenerationFailed")
                /\ clip_index' = clip_index
                /\ absorbed' = absorbed \cup EnhanceFailures(raw)
           ELSE LET index == ValidatedClipIndex(clip_index, Len(generated.clips_ranked)) IN
                /\ clip_index' = index
                /\ absorbed' = absorbed \cup EnhanceFailures(raw)
                                 \cup ({Fault("save_clips_to_file", 0)} \cap faults)
                /\ IF PyIndexOk(generated.clips_ranked, index)
                   THEN pc' = "CheckingAssets" /\ error' = error
                   ELSE Raise("IndexError")
    /\ UNCHANGED <<envVars, frontVars>>

\* video_generator.check_assets
check_assets(exists) == \A speaker \in DOMAIN VIDEO_MAPPINGS : exists[speaker]

\* Step 4
CheckAssets ==
    /\ pc = "CheckingAssets"
    /\ IF check_assets(assets)
       THEN pc' = "Scripting" /\ error' = error
       ELSE Raise("MissingAssets")
    /\ UNCHANGED <<clip_index, clips_result, envVars, frontVars, absorbed>>

\* Step 5: parse_clips_json(clips_result, clip_index)
ParseClips ==
    /\ pc = "Scripting"
    /\ LET parsed == parse_clips_json(clips_result, clip_index) IN
        IF parsed.ok
        THEN /\ segments' = parsed.segments
             /\ pc' = "Synthesizing" /\ error' = error
        ELSE /\ segments' = segments
             /\ Raise(parsed.error)
    /\ UNCHANGED <<clip_index, clips_result, envVars, audio_files, video_files, vpc,
                   vjobs, command, compiled_video_path, cjob, attempts,
                   caption_error, final_path, absorbed, result, raised, generation_status>>

----------------------------------------------------------------------------
(* AudioStage: generate_all_audio, one loop iteration per step *)

audioRest == <<clip_index, clips_result, envVars, segments, video_files, vpc, vjobs,
               command, compiled_video_path, cjob, attempts, caption_error, final_path,
               absorbed, result, raised, generation_status>>

\* generate_audio_for_segment for the segment at position i = len(audio_files)
AudioSegment ==
    /\ pc = "Synthesizing"
    /\ Len(audio_files) < Len(segments)
    /\ LET i == Len(audio_files)
           segment == segments[i + 1]
       IN  IF segment.speaker \notin DOMAIN VOICE_MAPPINGS
           THEN /\ Raise("UnknownSpeaker")
                /\ audio_files' = audio_files
           ELSE \E tts \in {"ok", "error"} :
                IF tts = "ok"
                THEN /\ audio_files' =
                          Append(audio_files,
                                 AudioRecord(i, segment,
                                     AudioPath(segment.speaker, hashseed[segment.text], "temp")))
                     /\ pc' = pc /\ error' = error
                ELSE /\ Raise("SynthesisFailed")
                     /\ audio_files' = audio_files
    /\ UNCHANGED audioRest

\* faulty variant of AudioReturn: the return sits inside the loop body
AudioReturnEarly ==
    /\ pc = "Synthesizing"
    /\ (audio_files # <<>> \/ Len(audio_files) = Len(segments))
    /\ pc' = Continue("VideoSynthesis")
    /\ UNCHANGED <<error, audio_files, audioRest>>

\* the for loop is exhausted: return audio_files
AudioReturn ==
    /\ pc = "Synthesizing"
    /\ Len(audio_files) = Len(segments)
    /\ pc' = Continue("VideoSynthesis")
    /\ UNCHANGED <<error, audio_files, audioRest>>

----------------------------------------------------------------------------
(* VideoStage: generate_all_videos and generate_video_for_segment *)

videoRest == <<clip_index, clips_result, envVars, segments, audio_files, command,
               compiled_video_path, cjob, attempts, caption_error, final_path,
               absorbed, result, raised>>

SetJob(jobs, job) == [jobs EXCEPT ![Len(jobs)] = job]

\* faulty variant of VideoSubmit: a rejected submission is printed and tried again
VideoSubmitRetry ==
    /\ pc = "VideoSynthesis"
    /\ vpc = "idle"
    /\ Len(video_files) < Len(audio_files)
    /\ LET audio_info == audio_files[Len(video_files) + 1] IN
        IF BaseVideoMissing(audio_info.speaker, assets)
        THEN /\ Raise("MissingAsset")
             /\ UNCHANGED <<vpc, vjobs>>
        ELSE \E created \in BOOLEAN :
             IF created
             THEN /\ vjobs' = Append(vjobs, NewJob(Len(video_files)))
                  /\ vpc' = "poll"
                  /\ pc' = pc /\ error' = error
             ELSE /\ pc' = pc /\ error' = "SubmissionError"
                  /\ UNCHANGED <<vpc, vjobs>>
    /\ UNCHANGED <<video_files, generation_status, videoRest>>

\* base video check, then generations.create_with_files
VideoSubmit ==
    /\ pc = "VideoSynthesis"
    /\ vpc = "idle"
    /\ Len(video_files) < Len(audio_files)
    /\ LET audio_info == audio_files[Len(video_files) + 1] IN
        IF BaseVideoMissing(audio_info.speaker, assets)
        THEN /\ Raise("MissingAsset")
             /\ UNCHANGED <<vpc, vjobs>>
        ELSE \E created \in BOOLEAN :
             IF created
             THEN /\ vjobs' = Append(vjobs, NewJob(Len(video_files)))
                  /\ vpc' = "poll"
                  /\ pc' = pc /\ error' = error
             ELSE /\ Raise("SubmissionError")
                  /\ UNCHANGED <<vpc, vjobs>>
    /\ UNCHANGED <<video_files, generation_status, videoRest>>

\* one iteration of the while True loop: generations.get, then the status branches
VideoPoll ==
    /\ pc = "VideoSynthesis"
    /\ vpc = "poll"
    /\ LET job == vjobs[Len(vjobs)]
           audio_info == audio_files[Len(video_files) + 1]
       IN  \/ \* the status request raises
              /\ vjobs' = SetJob(vjobs, [job EXCEPT !.poll_errors = @ + 1])
              /\ Raise("PollError")
              /\ UNCHANGED <<vpc, video_files, generation_status>>
           \/ \E answer \in SyncStatuses, has_url \in BOOLEAN, downloaded \in BOOLEAN :
              LET step == SyncLoopStep(answer, has_url)
                  seen == Observed(job, SyncObserved(answer), has_url)
              IN  IF step = "download"
                  THEN /\ vjobs' = SetJob(vjobs, [seen EXCEPT !.downloads = @ + 1])
                       /\ generation_status' = (IF downloaded THEN "none" ELSE answer)
                       /\ IF downloaded
                          THEN /\ video_files' =
                                    Append(video_files,
                                           VideoRecord(audio_info,
                                               VideoPath(audio_info.audio_path, "temp")))
                               /\ vpc' = "idle"
                               /\ pc' = pc /\ error' = error
                          ELSE /\ Raise("DownloadError")
                               /\ UNCHANGED <<vpc, video_files>>
                  ELSE IF step = "sleep"
                  THEN /\ vjobs' = SetJob(vjobs, seen)
                       /\ generation_status' = answer
                       /\ vpc' = "sleep"
                       /\ UNCHANGED <<pc, error, video_files>>
                  ELSE /\ vjobs' = SetJob(vjobs, seen)
                       /\ generation_status' = answer
                       /\ Raise(IF step = "raise_failed" THEN "JobFailed" ELSE "NoVideoURL")
                       /\ UNCHANGED <<vpc, video_files>>
    /\ UNCHANGED videoRest

\* faulty variant of VideoSleep: instead of waiting for the job, the next
\* segment's job is submitted
VideoSleepSubmitsNext ==
    /\ pc = "VideoSynthesis"
    /\ vpc = "sleep"
    /\ vpc' = "poll"
    /\ vjobs' = (IF Len(vjobs) < Len(audio_files)
                 THEN Append(vjobs, NewJob(Len(vjobs)))
                 ELSE vjobs)
    /\ UNCHANGED <<pc, error, video_files, generation_status, videoRest>>

\* time.sleep(10), then the next iteration
VideoSleep ==
    /\ pc = "VideoSynthesis"
    /\ vpc = "sleep"
    /\ vpc' = "poll"
    /\ UNCHANGED <<pc, error, vjobs, video_files, generation_status, videoRest>>

\* faulty variant of VideoReturn: the list is returned after any iteration
VideoReturnPartial ==
    /\ pc = "VideoSynthesis"
    /\ vpc = "idle"
    /\ pc' = Continue("Composing")
    /\ UNCHANGED <<error, vpc, vjobs, video_files, generation_status, videoRest>>

\* the for loop is exhausted: return video_files
VideoReturn ==
    /\ pc = "VideoSynthesis"
    /\ vpc = "idle"
    /\ Len(video_files) = Len(audio_files)
    /\ pc' = Continue("Composing")
    /\ UNCHANGED <<error, vpc, vjobs, video_files, generation_status, videoRest>>

----------------------------------------------------------------------------
(* Compositor: compile_podcast, the ffmpeg run included *)

OutputPath == IF entry = "full_pipeline" THEN PipelineOutputPath(clip_index)
              ELSE DefaultOutputPath

\* faulty variant of CalledProcessError: the handler raises a new exception
\* with a fixed message
CompilationFailed(run) == [returncode |-> 1, stderr |-> "FFmpeg error during compilation"]

\* the exception of subprocess.run(check=True): returncode and stderr of the process
CalledProcessError(run) == [returncode |-> run.returncode, stderr |-> run.stderr]

\* the outcomes of the ffmpeg process
FfmpegRuns ==
    { [returncode |-> 0, stderr |-> "frame= 30"],
      [returncode |-> 1, stderr |-> "Invalid data found"],
      [returncode |-> 1, stderr |-> "No such filter"],
      [returncode |-> 234, stderr |-> "Invalid data found"] }

\* the body of compile_podcast(files, output_dir, output_name)
CompileCall(files, output_path) ==
    IF EmptyInput(files)
    THEN /\ Raise("EmptyInput")
         /\ UNCHANGED <<command, compiled_video_path, result, raised>>
    ELSE /\ command' = BuildCommand(files, output_path)
         /\ \E run \in FfmpegRuns :
              /\ result' = run
              /\ IF run.returncode = 0
                 THEN /\ compiled_video_path' = output_path
                      /\ pc' = Continue("Captioning") /\ error' = error
                      /\ raised' = raised
                 ELSE /\ compiled_video_path' = compiled_video_path
                      /\ Raise("CalledProcessError")
                      /\ raised' = CalledProcessError(run)

composeRest == <<clip_index, clips_result, envVars, segments, audio_files,
                 vpc, vjobs, cjob, attempts, caption_error, final_path,
                 absorbed, generation_status>>

\* faulty variant of CompilePodcast: video_files.sort(...) instead of sorted(...)
CompilePodcastSortsInPlace ==
    /\ pc = "Composing"
    /\ CompileCall(video_files, OutputPath)
    /\ video_files' = SortedVideos(video_files)
    /\ UNCHANGED composeRest

CompilePodcast ==
    /\ pc = "Composing"
    /\ CompileCall(video_files, OutputPath)
    /\ UNCHANGED <<video_files, composeRest>>

\* the orders in which a caller can hand over the same artifacts
Reordered(files) ==
    { [k \in DOMAIN files |-> files[p[k]]] : p \in Permutations(DOMAIN files) }

\* the output paths of a later call: a later timestamp, or a given output_name
LaterOutputPaths ==
    { Path(<<"output">>, <<"podcast_", "later_timestamp">>, "mp4"),
      Path(<<"output">>, <<"given_name">>, "mp4") }

\* compile_podcast called once more with the same artifacts
CompileAgain ==
    /\ entry = "compile_podcast"
    /\ pc = "Returned"
    /\ \E files \in Reordered(video_files), output_path \in LaterOutputPaths :
         /\ video_files' = files
         /\ CompileCall(files, output_path)
    /\ UNCHANGED composeRest

----------------------------------------------------------------------------
(* CaptionStage: main.add_captions_with_zapcap inside full_pipeline's        *)
(* try/except, and its standalone twin caption_generator.add_captions       *)

captionRest == <<clip_index, clips_result, envVars, segments, audio_files,
                 video_files, vpc, vjobs, command, compiled_video_path,
                 absorbed, result, raised, generation_status>>

\* faulty variant of OnCaptionException: the exception leaves full_pipeline
PropagateCaptionException(kind, compiled) ==
    [pc |-> "Failed", error |-> kind, caption_error |-> kind, final_path |-> NoPath]

\* "except Exception": the warning is printed and the compiled video is the result
OnCaptionException(kind, compiled) ==
    [pc |-> "Done", error |-> "none", caption_error |-> kind, final_path |-> compiled]

\* faulty variant of OnCaptionSuccess: the compiled video is returned in both branches
OnCaptionSuccessKeepsCompiled(compiled) ==
    [pc |-> "Done", error |-> "none", caption_error |-> "none", final_path |-> compiled]

\* "return output_path" of add_captions_with_zapcap, then final_path = captioned_video_path
OnCaptionSuccess(compiled) ==
    [pc |-> "Done", error |-> "none", caption_error |-> "none",
     final_path |-> CaptionedPath(compiled, "output")]

\* caption_generator.add_captions: "raise Exception(...)" reaches the caller
OnAddCaptionsException(kind) ==
    [pc |-> "Failed", error |-> kind, caption_error |-> "none", final_path |-> NoPath]

\* caption_generator.add_captions: "return output_path"
OnAddCaptionsSuccess(video_path) ==
    [pc |-> "Returned", error |-> "none", caption_error |-> "none",
     final_path |-> CaptionedPath(video_path, "output")]

CaptionFailure(kind) ==
    IF entry = "full_pipeline" THEN OnCaptionException(kind, compiled_video_path)
    ELSE OnAddCaptionsException(kind)

CaptionSuccess ==
    IF entry = "full_pipeline" THEN OnCaptionSuccess(compiled_video_path)
    ELSE OnAddCaptionsSuccess(compiled_video_path)

Finish(outcome) ==
    /\ pc' = outcome.pc
    /\ error' = (IF outcome.error = "none" THEN error ELSE outcome.error)
    /\ caption_error' = outcome.caption_error
    /\ final_path' = outcome.final_path

\* API key check, upload, task creation (a missing input file of add_captions
\* is a rejected submission too)
CaptionStart ==
    /\ pc = "Captioning"
    /\ cjob = NoJob
    /\ IF ~api_key
       THEN /\ Finish(CaptionFailure("MissingApiKey"))
            /\ UNCHANGED <<cjob, attempts>>
       ELSE \E accepted \in BOOLEAN :
            IF accepted
            THEN /\ cjob' = NewJob(0)
                 /\ attempts' = 0
                 /\ UNCHANGED <<pc, error, caption_error, final_path>>
            ELSE /\ Finish(CaptionFailure("SubmissionError"))
                 /\ UNCHANGED <<cjob, attempts>>
    /\ UNCHANGED captionRest

\* faulty variant of KeepPolling: the bound is included
KeepPollingInclusive(n) == n <= max_attempts

\* "while attempts < max_attempts"
KeepPolling(n) == n < max_attempts

\* one iteration of "while attempts < max_attempts"
CaptionPoll ==
    /\ pc = "Captioning"
    /\ cjob # NoJob
    /\ KeepPolling(attempts)
    /\ \/ \* status_response.raise_for_status() raises
          /\ cjob' = [cjob EXCEPT !.poll_errors = @ + 1]
          /\ Finish(CaptionFailure("PollError"))
          /\ attempts' = attempts
       \/ \E status \in ZapcapStatuses, has_url \in BOOLEAN, downloaded \in BOOLEAN :
          LET step == ZapcapLoopStep(status, has_url)
              seen == Observed(cjob, ZapcapObserved(status), has_url)
          IN  IF step = "download"
              THEN /\ cjob' = [seen EXCEPT !.downloads = @ + 1]
                   /\ attempts' = attempts
                   /\ IF downloaded
                      THEN Finish(CaptionSuccess)
                      ELSE Finish(CaptionFailure("DownloadError"))
              ELSE IF step = "sleep"
              THEN /\ cjob' = seen
                   /\ attempts' = attempts + 1
                   /\ UNCHANGED <<pc, error, caption_error, final_path>>
              ELSE /\ cjob' = seen
                   /\ attempts' = attempts
                   /\ Finish(CaptionFailure(
                          IF step = "raise_failed" THEN "JobFailed" ELSE "KeyError"))
    /\ UNCHANGED captionRest

\* the loop condition fails: "ZapCap processing timed out"
CaptionTimeout ==
    /\ pc = "Captioning"
    /\ cjob # NoJob
    /\ ~KeepPolling(attempts)
    /\ Finish(CaptionFailure("JobTimeout"))
    /\ UNCHANGED <<cjob, attempts, captionRest>>

----------------------------------------------------------------------------
(* Specifications *)

Next ==
    \/ Analyze
    \/ LoadTranscript
    \/ GenerateClips
    \/ CheckAssets
    \/ ParseClips
    \/ AudioSegment
    \/ AudioReturn
    \/ VideoSubmit
    \/ VideoPoll
    \/ VideoSleep
    \/ VideoReturn
    \/ CompilePodcast
    \/ CaptionStart
    \/ CaptionPoll
    \/ CaptionTimeout

\* every entry point
Spec == Init /\ [][Next]_vars

\* the full pipeline; the interpreter keeps running the loop it is in
FairSpec == InitPipeline /\ [][Next]_vars /\ WF_vars(Next)

\* faulty variant of Cancel: the handler around the captioning step catches
\* the interrupt like any exception
CancelCaughtByHandler ==
    /\ entry = "full_pipeline"
    /\ pc \notin {"Done", "Failed"}
    /\ IF pc = "Captioning"
       THEN Finish(OnCaptionException("KeyboardInterrupt", compiled_video_path))
       ELSE /\ pc' = "Failed" /\ error' = "KeyboardInterrupt"
            /\ UNCHANGED <<caption_error, final_path>>
    /\ UNCHANGED <<cjob, attempts, captionRest>>

\* the user interrupts the run: KeyboardInterrupt passes every
\* "except Exception" and main exits with status 1
Cancel ==
    /\ entry = "full_pipeline"
    /\ pc \notin {"Done", "Failed"}
    /\ pc' = "Failed" /\ error' = "KeyboardInterrupt"
    /\ UNCHANGED <<caption_error, final_path, cjob, attempts, captionRest>>

\* python main.py with every asset and key in place, the user at the keyboard
InitCancel ==
    /\ entry = "full_pipeline"
    /\ pc = "Analyzing"
    /\ clip_index = 0
    /\ clips_result = NoResult
    /\ assets = AllAssets
    /\ hashseed = ZeroHash
    /\ api_key = TRUE
    /\ faults = {}
    /\ InitCommon

NextCancel ==
    \/ Next
    \/ Cancel

\* the full pipeline with user interrupts
CancelSpec == InitCancel /\ [][NextCancel]_vars

----------------------------------------------------------------------------
(* kontext-py: KontextClient and its synchronous wrapper *)

\* Python values handed to the client
PyStr(s) == [type |-> "str", s |-> s, n |-> 0]
PyInt(n) == [type |-> "int", s |-> "", n |-> n]
PyNone == [type |-> "NoneType", s |-> "", n |-> 0]

\* bool(v)
Truthy(v) ==
    CASE v.type = "str" -> v.s # ""
      [] v.type = "int" -> v.n # 0
      [] OTHER -> FALSE

\* arguments the model passes
ApiKeys == {PyStr(""), PyNone, PyStr("ktext_test"), PyStr("sk_test"), PyInt(7)}
UserIds == {PyStr(""), PyStr("test-user"), PyNone, PyInt(0), PyInt(42)}
MaxTokens == {PyNone, PyInt(0), PyInt(-5), PyInt(50), PyInt(2000), PyStr("many")}
Tasks == {"general", "chat"}
\* keywords of a call that get_context does not declare
Keywords == {{}, {"privacy_level"}}

\* calls made on one client
MaxCalls == 2

\* HTTP status codes the API answers with
HttpStatuses == {200, 401, 500}

NoException == [type |-> "none", code |-> "none", status_code |-> 0]

\* class KontextError(Exception)
KontextError(code, status_code) ==
    [type |-> "KontextError", code |-> code, status_code |-> status_code]

\* an exception of Python itself: it has no code attribute
BuiltinError(type) == [type |-> type, code |-> "none", status_code |-> 0]

NoCall == [user_id |-> PyNone, task |-> "none", max_tokens |-> PyNone,
           keywords |-> {}, sent |-> FALSE, maxFacts |-> 0, header |-> "none"]

\* faulty variant of InvalidUserId: the isinstance test is missing
InvalidUserIdFalsyOnly(user_id) == ~Truthy(user_id)

\* "not user_id or not isinstance(user_id, str)"
InvalidUserId(user_id) == ~Truthy(user_id) \/ user_id.type # "str"

\* "max_tokens is not None and (not isinstance(max_tokens, int) or max_tokens <= 0)"
InvalidMaxTokens(max_tokens) ==
    /\ max_tokens.type # "NoneType"
    /\ (max_tokens.type # "int" \/ max_tokens.n <= 0)

\* "min(max_tokens // 10, 100) if max_tokens else None", None being 0 here
maxFacts(max_tokens) ==
    IF Truthy(max_tokens)
    THEN (IF max_tokens.n \div 10 < 100 THEN max_tokens.n \div 10 ELSE 100)
    ELSE 0

\* the header the key is sent in
Headers(key) ==
    IF Len(key.s) >= 5 /\ SubSeq(key.s, 1, 5) = "ktext"
    THEN "X-Api-Key"
    ELSE "Authorization"

\* everything but the client
pipelineVars == <<entry, pc, error, clip_index, clips_result, assets, hashseed,
                  segments, audio_files, video_files, vpc, vjobs, command,
                  compiled_video_path, api_key, cjob, attempts, caption_error,
                  final_path, faults, absorbed, result, raised, generation_status>>

\* KontextClientSync(api_key)
KontextConstruct ==
    /\ kontext.state = "new"
    /\ \E key \in ApiKeys :
           IF ~Truthy(key)
           THEN kontext' = [kontext EXCEPT !.state = "unconstructed", !.api_key = key,
                                           !.raised = KontextError("MISSING_API_KEY", 400)]
           ELSE kontext' = [kontext EXCEPT !.state = "client", !.api_key = key]
    /\ UNCHANGED pipelineVars

\* client.get_context(user_id, task, max_tokens, **keywords), up to the request
KontextGetContext ==
    /\ kontext.state = "client"
    /\ kontext.calls < MaxCalls
    /\ \E user_id \in UserIds, task \in Tasks, max_tokens \in MaxTokens, keywords \in Keywords :
           LET call == [NoCall EXCEPT !.user_id = user_id, !.task = task,
                                      !.max_tokens = max_tokens, !.keywords = keywords]
               called == [kontext EXCEPT !.calls = @ + 1, !.call = call]
           IN  IF keywords # {}
               THEN kontext' = [called EXCEPT !.raised = BuiltinError("TypeError")]
               ELSE IF InvalidUserId(user_id)
               THEN kontext' = [called EXCEPT !.raised = KontextError("INVALID_USER_ID", 400)]
               ELSE IF InvalidMaxTokens(max_tokens)
               THEN kontext' = [called EXCEPT !.raised = KontextError("INVALID_MAX_TOKENS", 400)]
               ELSE IF kontext.api_key.type # "str"
               THEN kontext' = [called EXCEPT !.raised = BuiltinError("AttributeError")]
               ELSE kontext' = [called EXCEPT !.state = "requesting",
                                              !.raised = NoException,
                                              !.requests = @ + 1,
                                              !.call.sent = TRUE,
                                              !.call.maxFacts = maxFacts(max_tokens),
                                              !.call.header = Headers(kontext.api_key)]
    /\ UNCHANGED pipelineVars

\* session.get answers, or fails
KontextRespond ==
    /\ kontext.state = "requesting"
    /\ \E outcome \in {"answered", "ClientError", "JSONDecodeError"}, status \in HttpStatuses :
           kontext' = [kontext EXCEPT
               !.state = "client",
               !.raised = CASE outcome = "ClientError" -> KontextError("NETWORK_ERROR", 500)
                            [] status # 200 -> KontextError("API_ERROR", status)
                            [] outcome = "JSONDecodeError" -> KontextError("INVALID_RESPONSE", 500)
                            [] OTHER -> NoException]
    /\ UNCHANGED pipelineVars

\* test_client.py: nothing of the pipeline runs
InitKontext ==
    /\ entry = "test_client"
    /\ pc = "Returned"
    /\ clip_index = 0
    /\ clips_result = NoResult
    /\ assets = AllAssets
    /\ hashseed = ZeroHash
    /\ api_key = FALSE
    /\ error = "none"
    /\ segments = <<>>
    /\ audio_files = <<>>
    /\ video_files = <<>>
    /\ vpc = "idle"
    /\ vjobs = <<>>
    /\ command = NoCommand
    /\ compiled_video_path = NoPath
    /\ cjob = NoJob
    /\ attempts = 0
    /\ caption_error = "none"
    /\ final_path = NoPath
    /\ faults = {}
    /\ absorbed = {}
    /\ result = NoRun
    /\ raised = NoRun
    /\ generation_status = "none"
    /\ kontext = [state |-> "new", api_key |-> PyNone, calls |-> 0, requests |-> 0,
                  call |-> NoCall, raised |-> NoException]

NextKontext ==
    \/ KontextConstruct
    \/ KontextGetContext
    \/ KontextRespond

\* the Kontext client on its own
KontextSpec == InitKontext /\ [][NextKontext]_vars

----------------------------------------------------------------------------
(* Compositor: video_compiler.compile_with_custom_settings *)

\* default output_name of compile_with_custom_settings
CustomOutputPath == Path(<<"output">>, <<"podcast_custom_", "timestamp">>, "mp4")

\* **kwargs: none, or one extra ffmpeg option
CustomSettings == { <<>>, <<[key |-> "crf", value |-> "23"]>> }

\* the argv of compile_with_custom_settings: as compile_podcast's, then one
\* "-key value" pair per keyword argument, then the output path
BuildCustomCommand(files, output_path, kwargs) ==
    LET sorted_videos == SortedVideos(files)
        n == Len(sorted_videos)
    IN  [input_args |-> [k \in 1..n |-> AbsPath(sorted_videos[k].video_path)],
         scaling_parts |-> [k \in 1..n |-> ScalingPart(k - 1)],
         concat_inputs |-> [k \in 1..n |-> ConcatInput(k - 1)],
         num_segments |-> Len(files),
         concat_outputs |-> [v |-> 1, a |-> 1],
         settings |-> kwargs,
         output |-> output_path]

\* what ffmpeg can answer to a command: without inputs it cannot exit with 0
FfmpegRunsOf(cmd) ==
    IF cmd.input_args = <<>>
    THEN { run \in FfmpegRuns : run.returncode # 0 }
    ELSE FfmpegRuns

\* compile_with_custom_settings(video_files, **kwargs): no test of the list,
\* the command is built and run
CompileWithCustomSettings ==
    /\ entry = "compile_with_custom_settings"
    /\ pc = "Composing"
    /\ \E kwargs \in CustomSettings :
         LET cmd == BuildCustomCommand(video_files, CustomOutputPath, kwargs) IN
         /\ command' = cmd
         /\ \E run \in FfmpegRunsOf(cmd) :
              /\ result' = run
              /\ IF run.returncode = 0
                 THEN /\ compiled_video_path' = CustomOutputPath
                      /\ pc' = "Returned" /\ error' = error
                      /\ raised' = raised
                 ELSE /\ compiled_video_path' = compiled_video_path
                      /\ Raise("CalledProcessError")
                      /\ raised' = CalledProcessError(run)
    /\ UNCHANGED <<video_files, composeRest>>

\* compile_with_custom_settings(video_files), the artifacts in any order
InitCustom ==
    /\ entry = "compile_with_custom_settings"
    /\ pc = "Composing"
    /\ clip_index = 0
    /\ clips_result = NoResult
    /\ assets = AllAssets
    /\ hashseed = ZeroHash
    /\ api_key = TRUE
    /\ error = "none"
    /\ segments = <<>>
    /\ audio_files = <<>>
    /\ video_files \in { f \in SeqsUpTo(VideoArtifacts, MaxVideos) : DistinctIndex(f) }
    /\ vpc = "idle"
    /\ vjobs = <<>>
    /\ command = NoCommand
    /\ compiled_video_path = NoPath
    /\ cjob = NoJob
    /\ attempts = 0
    /\ caption_error = "none"
    /\ final_path = NoPath
    /\ faults = {}
    /\ InitAux

NextCustom == CompileWithCustomSettings

\* compile_with_custom_settings on its own
CustomSpec == InitCustom /\ [][NextCustom]_vars

----------------------------------------------------------------------------
(* podcast_editor.generate_clips_from_transcript, from the model's first     *)
(* answer on (enhance_clips = True, as full_pipeline calls it)               *)

\* dialogues of the clips of a first answer
RawDialogues ==
    { <<[speaker |-> "Speaker A", text |-> <<"h", "i">>]>>,
      <<[speaker |-> "Speaker B", text |-> <<" ", "b", "y", "e", " ">>],
        [speaker |-> "Speaker A", text |-> <<"h", "i">>]>> }

\* json.loads of the first answer: clips ranked 1..n, or no "clips_ranked" key
RawResults ==
    { [clips_ranked |-> [p \in 1..n |-> Clip(p, d[p])]] :
        n \in 0..MaxRawClips, d \in [1..MaxRawClips -> RawDialogues] }
    \cup { [clips |-> <<>>] }

\* the enhancement requests that can fail
EnhanceFaultOps == { Fault("enhance_clip", p) : p \in 1..MaxRawClips }

\* the enhancement loop, then "return result"
EnhanceAndReturn ==
    /\ entry = "generate_clips_from_transcript"
    /\ pc = "Enhancing"
    /\ clips_result' = EnhanceClips(clips_result)
    /\ absorbed' = absorbed \cup EnhanceFailures(clips_result)
    /\ pc' = "Returned"
    /\ UNCHANGED <<error, clip_index, envVars, frontVars>>

\* generate_clips_from_transcript with the first answer parsed
InitEnhance ==
    /\ entry = "generate_clips_from_transcript"
    /\ pc = "Enhancing"
    /\ clip_index = 0
    /\ clips_result \in RawResults
    /\ assets = AllAssets
    /\ hashseed = ZeroHash
    /\ api_key = FALSE
    /\ faults \in SUBSET EnhanceFaultOps
    /\ InitCommon

NextEnhance == EnhanceAndReturn

\* generate_clips_from_transcript on its own
EnhanceSpec == InitEnhance /\ [][NextEnhance]_vars

NextCompile ==
    \/ CompilePodcast
    \/ CompileAgain

\* compile_podcast called repeatedly with the same artifacts
CompileSpec == InitCompile /\ [][NextCompile]_vars

----------------------------------------------------------------------------
(* Properties *)

\* the element of a set of artifacts with exactly k - 1 smaller segment indices
ByRank(S, k) ==
    CHOOSE a \in S : Cardinality({ b \in S : b.segment_index < a.segment_index }) = k - 1

\* C1: whatever the order in which the video artifacts (pairwise distinct
\* segment_index) are handed to compile_podcast, the -i inputs of the ffmpeg
\* command are their files in ascending segment_index order and the concat
\* filter lists the inputs 0..N-1 in that order: the command is a function of
\* the set of artifacts, not of the order of the list.
C1_CompositorSortsByIndex ==
    (command # NoCommand /\ DistinctIndex(video_files)) =>
        LET S == Range(video_files)
            n == Cardinality(S)
        IN  /\ Len(command.input_args) = n
            /\ Len(command.concat_inputs) = n
            /\ \A k \in 1..n :
                 /\ command.input_args[k] = AbsPath(ByRank(S, k).video_path)
                 /\ command.concat_inputs[k] = [video |-> k - 1, audio |-> k - 1]

C1_Witness ==
    /\ entry = "compile_podcast"
    /\ command # NoCommand
    /\ Len(video_files) = 3
    /\ video_files[1].segment_index = 2
    /\ video_files[2].segment_index = 0
    /\ video_files[3].segment_index = 1
    /\ video_files[1].video_path # video_files[2].video_path

\* generate_all_audio has returned its list
AudioReturned ==
    /\ entry \in {"full_pipeline", "parse_clips_json"}
    /\ pc \in {"VideoSynthesis", "Composing", "Captioning", "Done", "Returned"}

\* C2: when generate_all_audio returns for N segments (no synthesis call
\* failed), the list has exactly N artifacts, their segment_index values are
\* exactly 0..N-1, each once, and artifact k carries the speaker and the text
\* of segment k.
C2_AudioIndicesDense ==
    AudioReturned =>
        /\ Len(audio_files) = Len(segments)
        /\ { audio_files[k].segment_index : k \in DOMAIN audio_files }
             = 0..(Len(segments) - 1)
        /\ \A k \in DOMAIN audio_files :
             /\ audio_files[k].segment_index = k - 1
             /\ audio_files[k].speaker = segments[k].speaker
             /\ audio_files[k].text = segments[k].text

C2_Witness ==
    /\ AudioReturned
    /\ Len(segments) = 2
    /\ segments[1].speaker # segments[2].speaker
    /\ segments[1].text # segments[2].text

\* generate_all_videos has returned its list
VideosReturned ==
    /\ entry \in {"full_pipeline", "generate_all_videos"}
    /\ pc \in {"Composing", "Captioning", "Done", "Returned"}

\* C3: when generate_all_videos returns (every lip-sync job succeeded), its
\* list has one video artifact per audio artifact and nothing else, and the
\* video artifact of an audio artifact has the same segment_index and speaker.
C3_VideosBijection ==
    VideosReturned =>
        /\ Len(video_files) = Len(audio_files)
        /\ \A k \in DOMAIN video_files :
             /\ video_files[k].segment_index = audio_files[k].segment_index
             /\ video_files[k].speaker = audio_files[k].speaker
             /\ video_files[k].audio_path = audio_files[k].audio_path

C3_Witness ==
    /\ entry = "generate_all_videos"
    /\ pc = "Returned"
    /\ Len(video_files) = 2
    /\ audio_files[1].segment_index = 2
    /\ audio_files[2].segment_index = 0
    /\ audio_files[1].speaker # audio_files[2].speaker

\* C4: once compile_podcast has succeeded inside full_pipeline the run cannot
\* fail any more, and a captioning failure of any kind (missing API key,
\* rejected submission, failed or timed-out job, failed download) ends it in
\* Done with the compositor's path as the final path and the run reported as
\* not captioned.
C4_CaptionFailureAbsorbed ==
    (entry = "full_pipeline" /\ compiled_video_path # NoPath) =>
        /\ pc \in {"Captioning", "Done"}
        /\ error = "none"
        /\ caption_error # "none" =>
             /\ pc = "Done"
             /\ final_path = compiled_video_path
        /\ (pc = "Done" /\ final_path # compiled_video_path) =>
             /\ caption_error = "none"
             /\ cjob.status = "completed"

C4_Witness ==
    /\ pc = "Done"
    /\ caption_error = "JobTimeout"
    /\ attempts = max_attempts
    /\ final_path = compiled_video_path
    /\ compiled_video_path = PipelineOutputPath(clip_index)


\* every job submitted so far: the lip-sync jobs and the captioning job
AllJobs == Range(vjobs) \cup (IF cjob = NoJob THEN {} ELSE {cjob})

\* C5 as stated: every job is downloaded at most once and only once completed
\* has been observed, and a job observed completed has been downloaded exactly
\* once.
C5_CompletedMeansOneDownload ==
    \A job \in AllJobs :
        /\ job.downloads <= 1
        /\ job.downloads = 1 => job.status = "completed"
        /\ job.status = "completed" => job.downloads = 1

\* C5, amended: every job is downloaded at most once and only after a poll
\* reported completed; a completed response that carries a result URL causes
\* exactly one download, a completed response without one causes none.
C5_DownloadOnceAfterCompleted ==
    \A job \in AllJobs :
        /\ job.downloads <= 1
        /\ job.downloads = 1 => (job.status = "completed" /\ job.has_url)
        /\ (job.status = "completed" /\ job.has_url) => job.downloads = 1
        /\ (job.status = "completed" /\ ~job.has_url) => job.downloads = 0

C5_Witness ==
    /\ entry = "full_pipeline"
    /\ pc = "Done"
    /\ caption_error = "none"
    /\ attempts = 2
    /\ cjob.status = "completed"
    /\ cjob.downloads = 1
    /\ Len(vjobs) = 2
    /\ \A k \in DOMAIN vjobs : vjobs[k].status = "completed" /\ vjobs[k].downloads = 1

\* C6: a job whose backend only ever answers with in-progress statuses is
\* given up: the lip-sync loop, once polling, eventually stops polling that
\* job, and so does the captioning loop; a timed-out job was never downloaded.
C6_PollLoopsTimeOut ==
    /\ (pc = "VideoSynthesis" /\ vpc = "poll") ~> (pc # "VideoSynthesis" \/ vpc = "idle")
    /\ (pc = "Captioning" /\ cjob # NoJob) ~> (pc # "Captioning")
    /\ [](caption_error = "JobTimeout" => cjob.downloads = 0)

\* C7: a job one of whose status requests failed, and which has not been
\* observed completed or failed, is still being driven: its loop will poll or
\* sleep next.
C7_PollFailureRetried ==
    /\ \A k \in DOMAIN vjobs :
         (vjobs[k].poll_errors > 0 /\ vjobs[k].status \notin Terminal)
            => (k = Len(vjobs) /\ pc = "VideoSynthesis" /\ vpc \in {"poll", "sleep"})
    /\ (cjob.poll_errors > 0 /\ cjob.status \notin Terminal) => pc = "Captioning"

TerminalNotPolled ==
    /\ (vjobs # <<>> /\ vjobs[Len(vjobs)].status \in Terminal) => ~ENABLED VideoPoll
    /\ cjob.status \in Terminal => ~ENABLED CaptionPoll

\* a job observed completed or failed is left as it is by this step
TerminalUnchanged ==
    /\ \A k \in DOMAIN vjobs :
         vjobs[k].status \in Terminal => (k \in DOMAIN vjobs' /\ vjobs'[k] = vjobs[k])
    /\ cjob.status \in Terminal => cjob' = cjob

\* C9: a job whose status was observed as completed or failed is never polled
\* again and its record never changes afterwards; this holds for every
\* lip-sync job, a completed one without output URL included, and for the
\* captioning job.
C9_TerminalIsFinal == []TerminalNotPolled /\ [][TerminalUnchanged]_vars

C9_Witness ==
    /\ Len(vjobs) = 2
    /\ vjobs[1].status = "completed" /\ vjobs[1].has_url
    /\ vjobs[2].status = "completed" /\ ~vjobs[2].has_url
    /\ error = "NoVideoURL"

\* positions of the dialogue lines with a non-whitespace character
NonBlank(dialogue_lines) ==
    { p \in DOMAIN dialogue_lines :
        \E c \in Range(dialogue_lines[p].text) : c \notin Whitespace }

\* the k-th of a set of positions
KthOf(P, k) == CHOOSE p \in P : Cardinality({ q \in P : q < p }) = k - 1

\* parse_clips_json has returned the segments of the selected clip
SegmentsParsed ==
    /\ entry \in {"full_pipeline", "parse_clips_json"}
    /\ pc \in {"Synthesizing", "VideoSynthesis", "Composing", "Captioning", "Done", "Returned"}

\* C10: the segments are the non-blank dialogue lines of the selected clip in
\* dialogue order, stripped, Speaker A as person1 and Speaker B as person2,
\* and the audio artifact built for the k-th surviving line has index k - 1,
\* whatever the line's position in the dialogue was.
C10_DenseRenumbering ==
    SegmentsParsed =>
        LET dialogue_lines == PyIndex(clips_result.clips_ranked, clip_index).dialogue_lines
            P == NonBlank(dialogue_lines)
        IN  /\ Len(segments) = Cardinality(P)
            /\ \A k \in DOMAIN segments :
                 LET line == dialogue_lines[KthOf(P, k)] IN
                 /\ segments[k].text = Strip(line.text)
                 /\ Get(line, "speaker", "Unknown") = "Speaker A"
                      => segments[k].speaker = "person1"
                 /\ Get(line, "speaker", "Unknown") = "Speaker B"
                      => segments[k].speaker = "person2"
            /\ \A k \in DOMAIN audio_files :
                 /\ audio_files[k].segment_index = k - 1
                 /\ audio_files[k].text = segments[k].text
                 /\ audio_files[k].speaker = segments[k].speaker

C10_Witness ==
    /\ entry = "parse_clips_json"
    /\ pc = "Returned"
    /\ LET dialogue_lines == PyIndex(clips_result.clips_ranked, clip_index).dialogue_lines IN
        /\ Len(dialogue_lines) = 2
        /\ dialogue_lines[1].text = <<" ">>
        /\ dialogue_lines[2] = [speaker |-> "Speaker B", text |-> <<" ", "b", "y", "e", " ">>]
    /\ Len(audio_files) = 1
    /\ audio_files[1].segment_index = 0
    /\ audio_files[1].speaker = "person2"
    /\ audio_files[1].text = <<"b", "y", "e">>

\* the requested clip index is out of range or the selected clip has no line
\* with a non-whitespace character
Unusable ==
    LET clips == clips_result.clips_ranked IN
    \/ clip_index \notin 0..(Len(clips) - 1)
    \/ NonBlank(Get(PyIndex(clips, clip_index), "dialogue_lines", <<>>)) = {}

\* C11: parse_clips_json raises its ValueError and returns no segment list
\* whenever the clip index is outside 0..len(clips_ranked)-1 (negative indices
\* included) or the selected clip has no usable line (no dialogue_lines, or
\* only lines of empty or whitespace-only text); so whenever it has returned,
\* the index was in range and the clip had a usable line.
C11_NoUsableLinesFails ==
    /\ (entry = "parse_clips_json" /\ pc # "Scripting" /\ Unusable)
          => (pc = "Failed" /\ error = "ValueError" /\ segments = <<>>)
    /\ SegmentsParsed => ~Unusable

\* C12: every segment parse_clips_json emits has speaker person1 or person2
\* and a non-empty text, whatever the speaker labels of the dialogue lines
\* are (other labels and missing labels included).
C12_SegmentsWellTyped ==
    \A k \in DOMAIN segments :
        /\ segments[k].speaker \in Speakers
        /\ segments[k].text # <<>>

\* C13: if the base video of any speaker occurring in the audio artifacts is
\* missing, generate_all_videos fails with the missing-asset error before it
\* has submitted a lip-sync job for any segment, the earlier segments of
\* speakers whose base video exists included.
C13_PreflightSpansSet ==
    (\E k \in DOMAIN audio_files : BaseVideoMissing(audio_files[k].speaker, assets)) =>
        /\ vjobs = <<>>
        /\ pc # "Returned"

\* C14: compile_podcast called with no artifacts raises its empty-input error
\* and has not built or run an ffmpeg command; a command is only ever run for
\* a non-empty list, and inside full_pipeline nothing follows the compositor
\* when the list was empty.
C14_EmptyInputRejected ==
    /\ command # NoCommand => video_files # <<>>
    /\ (entry = "compile_podcast" /\ pc # "Composing" /\ video_files = <<>>) =>
          /\ pc = "Failed" /\ error = "EmptyInput"
          /\ command = NoCommand
          /\ compiled_video_path = NoPath
    /\ (entry = "full_pipeline" /\ pc \in {"Captioning", "Done"}) => video_files # <<>>

C14_Witness ==
    /\ entry = "compile_podcast"
    /\ video_files = <<>>
    /\ pc = "Failed"
    /\ error = "EmptyInput"

\* C15: when compile_podcast is called again with the same artifacts (the
\* list in any order, under any output name), the filter graph of the new
\* command is the one of the command before: same scale, pad and setsar
\* parameters at each position, same concat inputs, same concat count.
C15_SameFilterGraph ==
    [][command # NoCommand => FilterGraph(command') = FilterGraph(command)]_vars

C15_Witness ==
    /\ entry = "compile_podcast"
    /\ pc = "Returned"
    /\ command.output \in LaterOutputPaths
    /\ compiled_video_path = command.output
    /\ Len(video_files) = 3
    /\ video_files[1].segment_index = 2
    /\ video_files[2].segment_index = 0
    /\ command.concat_inputs = [k \in 1..3 |-> [video |-> k - 1, audio |-> k - 1]]

ParseErrors == {"ValueError"}
AudioErrors == {"UnknownSpeaker", "SynthesisFailed"}
VideoErrors == {"MissingAsset", "SubmissionError", "PollError", "DownloadError",
                "JobFailed", "NoVideoURL"}
CompositorErrors == {"EmptyInput", "CalledProcessError"}

\* C16: an error raised by parse_clips_json, generate_all_audio,
\* generate_all_videos or compile_podcast inside full_pipeline ends the run in
\* Failed: no final path is returned, no step follows, no later stage has
\* produced anything and no captioning job was submitted; and the run goes on
\* only while no error was raised.
C16_FatalErrorFails ==
    entry = "full_pipeline" =>
        /\ error # "none" => pc = "Failed"
        /\ pc = "Failed" =>
              /\ error # "none"
              /\ final_path = NoPath
              /\ cjob = NoJob /\ caption_error = "none"
              /\ ~ENABLED Next
              /\ error \in ParseErrors =>
                    (segments = <<>> /\ audio_files = <<>> /\ vjobs = <<>> /\ command = NoCommand)
              /\ error \in AudioErrors =>
                    (Len(audio_files) < Len(segments) /\ vjobs = <<>> /\ command = NoCommand)
              /\ error \in VideoErrors =>
                    (Len(video_files) < Len(audio_files) /\ command = NoCommand)
              /\ error \in CompositorErrors => compiled_video_path = NoPath

C16_Witness ==
    /\ entry = "full_pipeline"
    /\ pc = "Failed"
    /\ error = "JobFailed"
    /\ Len(audio_files) = 2
    /\ Len(video_files) = 1
    /\ Len(vjobs) = 2
    /\ cjob = NoJob

\* C17: every run of full_pipeline eventually ends in Done or Failed, whatever
\* the backends answer: no poll loop waits for ever.
C17_RunTerminates == <>(pc \in {"Done", "Failed"})

\* C18: inside full_pipeline a lip-sync job exists only once there is an
\* audio artifact for every segment, an ffmpeg command exists only once every
\* audio artifact has its video (every job completed and downloaded), and a
\* captioning job exists only once compile_podcast has returned its path.
C18_StagesAreBarriers ==
    entry = "full_pipeline" =>
        /\ vjobs # <<>> =>
              /\ Len(audio_files) = Len(segments)
              /\ pc \notin {"Scripting", "Synthesizing"}
        /\ command # NoCommand =>
              /\ Len(video_files) = Len(audio_files)
              /\ Len(vjobs) = Len(audio_files)
              /\ \A k \in DOMAIN vjobs : vjobs[k].status = "completed" /\ vjobs[k].downloads = 1
              /\ pc \notin {"Scripting", "Synthesizing", "VideoSynthesis"}
        /\ cjob # NoJob =>
              /\ command # NoCommand
              /\ compiled_video_path = command.output
              /\ pc \in {"Captioning", "Done"}

C18_Witness ==
    /\ entry = "full_pipeline"
    /\ pc = "Captioning"
    /\ cjob # NoJob
    /\ cjob.status = "pending"
    /\ Len(segments) = 2
    /\ Len(vjobs) = 2

\* C19: within one run any two distinct segments have distinct audio paths
\* and distinct video paths, so no two jobs write the same file.
C19_DistinctPaths ==
    entry \in {"full_pipeline", "parse_clips_json"} =>
        /\ \A a, b \in DOMAIN audio_files :
              a # b => audio_files[a].audio_path # audio_files[b].audio_path
        /\ \A a, b \in DOMAIN video_files :
              a # b => video_files[a].video_path # video_files[b].video_path

\* the captioning job completed and its result was downloaded
CaptionDownloaded ==
    /\ cjob.status = "completed"
    /\ cjob.downloads = 1
    /\ caption_error # "DownloadError"

\* C20: full_pipeline returns a path exactly when it ends in Done; the path
\* is the captioned file's path (stem ending in _captioned) if and only if
\* the captioning job completed and its result was downloaded, and it is
\* compile_podcast's output path otherwise, so the path tells which one it is.
C20_FinalPathCaptionedIff ==
    entry = "full_pipeline" =>
        /\ pc # "Done" => final_path = NoPath
        /\ pc = "Done" =>
              /\ compiled_video_path = PipelineOutputPath(clip_index)
              /\ final_path = (IF CaptionDownloaded
                               THEN CaptionedPath(compiled_video_path, "output")
                               ELSE compiled_video_path)
              /\ CaptionDownloaded <=> final_path.stem[Len(final_path.stem)] = "_captioned"
              /\ CaptionDownloaded <=> caption_error = "none"

C20_Witness ==
    /\ entry = "full_pipeline"
    /\ pc = "Done"
    /\ CaptionDownloaded
    /\ attempts = 1
    /\ final_path = CaptionedPath(PipelineOutputPath(clip_index), "output")

\* some segment's speaker has no voice mapping
UnknownSpeakerPresent ==
    \E k \in DOMAIN segments : segments[k].speaker \notin DOMAIN VOICE_MAPPINGS

\* C21: when some segment's speaker has no mapped voice, generate_all_audio
\* fails before any speech has been synthesized, wherever the segment is in
\* the list: no audio artifact exists and the stage never returns.
C21_UnknownSpeakerFailsFast ==
    (entry \in {"full_pipeline", "parse_clips_json"} /\ UnknownSpeakerPresent) =>
        /\ audio_files = <<>>
        /\ pc \in {"Synthesizing", "Failed"}

\* C22: the first failed job of generate_all_audio or generate_all_videos ends
\* the stage: no job is submitted for a later segment (the failed one is the
\* last), nothing of the stage can run any more, and a stage that has
\* returned has returned the complete collection, never a partial one.
C22_FirstFailureAbortsStage ==
    /\ error \in AudioErrors =>
          /\ pc = "Failed"
          /\ Len(audio_files) < Len(segments)
          /\ vjobs = <<>>
          /\ ~ENABLED AudioSegment /\ ~ENABLED AudioReturn
    /\ (error \in VideoErrors /\ entry \in {"full_pipeline", "generate_all_videos"}) =>
          /\ pc = "Failed"
          /\ Len(video_files) < Len(audio_files)
          /\ Len(vjobs) <= Len(video_files) + 1
          /\ command = NoCommand
          /\ ~ENABLED VideoSubmit /\ ~ENABLED VideoPoll
          /\ ~ENABLED VideoSleep /\ ~ENABLED VideoReturn
    /\ AudioReturned => Len(audio_files) = Len(segments)
    /\ VideosReturned => Len(video_files) = Len(audio_files)

C22_Witness ==
    /\ entry = "generate_all_videos"
    /\ pc = "Failed"
    /\ error = "DownloadError"
    /\ Len(audio_files) = 2
    /\ video_files = <<>>
    /\ Len(vjobs) = 1

\* C23 as stated: a run of full_pipeline that reaches Done has absorbed no
\* failure except the captioning step's.
C23_OnlyCaptioningAbsorbed ==
    (entry = "full_pipeline" /\ pc = "Done") => absorbed = {}

\* C23, amended: the failures full_pipeline absorbs are those of captioning,
\* of the Kontext lookup, of a clip's enhancement request (the clip is kept as
\* it was) and of writing the clips file; they do not stop the run, and a
\* failure of any other operation does: it is never followed by Done.
C23_AbsorbedFailures ==
    entry = "full_pipeline" =>
        /\ error # "none" => (pc = "Failed" /\ ~ENABLED Next)
        /\ pc = "Done" => error = "none"
        /\ caption_error # "none" => pc = "Done"
        /\ absorbed \subseteq faults
        /\ pc \notin {"Analyzing", "LoadingTranscript", "ClipSelection", "Failed"} =>
              /\ absorbed = faults \cap
                    { f \in FaultOps : f.arg \in 0..Len(clips_result.clips_ranked) }
              /\ \A p \in DOMAIN clips_result.clips_ranked :
                    clips_result.clips_ranked[p].enhanced
                        <=> (Fault("enhance_clip", p) \notin absorbed)

C23_Witness ==
    /\ entry = "full_pipeline"
    /\ pc = "Done"
    /\ caption_error = "MissingApiKey"
    /\ absorbed = { Fault("get_kontext_context", 0), Fault("save_clips_to_file", 0),
                    Fault("enhance_clip", 1) }
    /\ Len(video_files) = 2

\* C24: a user interrupt arriving at any point of a run (so also between the
\* segments of a stage and between the poll iterations of a job) ends the run
\* in Failed; no handler absorbs it, nothing runs afterwards and no path is
\* returned as the final video.
C24_CancelFails ==
    /\ caption_error # "KeyboardInterrupt"
    /\ pc \notin {"Done", "Failed"} => ENABLED Cancel
    /\ error = "KeyboardInterrupt" =>
          /\ pc = "Failed"
          /\ final_path = NoPath
          /\ ~ENABLED NextCancel

C24_Witness ==
    /\ error = "KeyboardInterrupt"
    /\ pc = "Failed"
    /\ cjob.status = "pending"
    /\ attempts = 2
    /\ compiled_video_path # NoPath
    /\ final_path = NoPath

\* C25: a rejected submission ends its stage at once: no job exists for it,
\* nothing was polled for it and it is not submitted again; a failed download
\* ends its job at once: the job was downloaded once, is not polled again and
\* is not downloaded again. No job is ever downloaded twice.
C25_SubmitAndDownloadOnce ==
    /\ \A job \in AllJobs : job.downloads <= 1
    /\ (error = "SubmissionError" /\ entry # "add_captions") =>
          /\ pc = "Failed"
          /\ Len(vjobs) = Len(video_files)
          /\ \A k \in DOMAIN vjobs : vjobs[k].status = "completed"
          /\ ~ENABLED VideoSubmit /\ ~ENABLED VideoPoll /\ ~ENABLED VideoSleep
    /\ ((error = "SubmissionError" /\ entry = "add_captions")
            \/ caption_error = "SubmissionError") =>
          /\ cjob = NoJob /\ attempts = 0
          /\ pc \in {"Failed", "Done"}
          /\ ~ENABLED CaptionStart /\ ~ENABLED CaptionPoll
    /\ (error = "DownloadError" /\ entry # "add_captions") =>
          /\ pc = "Failed"
          /\ vjobs[Len(vjobs)].downloads = 1
          /\ vjobs[Len(vjobs)].status = "completed"
          /\ Len(vjobs) = Len(video_files) + 1
          /\ ~ENABLED VideoSubmit /\ ~ENABLED VideoPoll /\ ~ENABLED VideoSleep
    /\ ((error = "DownloadError" /\ entry = "add_captions")
            \/ caption_error = "DownloadError") =>
          /\ cjob.downloads = 1
          /\ pc \in {"Failed", "Done"}
          /\ ~ENABLED CaptionStart /\ ~ENABLED CaptionPoll /\ ~ENABLED CaptionTimeout

C25_Witness ==
    /\ entry = "generate_all_videos"
    /\ error = "SubmissionError"
    /\ Len(audio_files) = 2
    /\ Len(video_files) = 1
    /\ Len(vjobs) = 1

\* C26: when ffmpeg exits non-zero, compile_podcast raises and returns no
\* path; the exception carries the exit code and the stderr text of the
\* process as they were; inside full_pipeline the run is Failed, no captioning
\* job exists and nothing follows.
C26_CompositionErrorCarried ==
    /\ result.returncode # 0 => error = "CalledProcessError"
    /\ error = "CalledProcessError" =>
          /\ pc = "Failed"
          /\ result.returncode # 0
          /\ raised.returncode = result.returncode
          /\ raised.stderr = result.stderr
          /\ compiled_video_path = NoPath
          /\ final_path = NoPath
          /\ cjob = NoJob
          /\ ~ENABLED Next

C26_Witness ==
    /\ entry = "full_pipeline"
    /\ error = "CalledProcessError"
    /\ raised = [returncode |-> 234, stderr |-> "Invalid data found"]
    /\ Len(video_files) = 2

\* the lip-sync backend's statuses of a generation that cannot succeed
SyncCannotSucceed == {"ERROR", "FAILED", "REJECTED"}

\* C29: every status a backend answers is taken as exactly one of pending,
\* running, completed, failed, and a status that means the job cannot
\* succeed is taken as failed: the loop stops and the stage fails.
C29_StatusesNormalized ==
    /\ \A job \in AllJobs : job.status \in {"submitted", "pending", "running", "completed", "failed"}
    /\ generation_status \in SyncCannotSucceed =>
          /\ vjobs[Len(vjobs)].status = "failed"
          /\ pc = "Failed"

\* C30: the captioning loop sends at most max_attempts = 300 status requests
\* for a job: the counter (one sleep per non-terminal response) never exceeds
\* 300, no poll is possible at 300, the timeout is raised exactly there with
\* nothing downloaded, and a completed or failed status is acted on at any
\* poll from the 1st to the 300th.
C30_AtMost300Polls ==
    /\ attempts \in 0..max_attempts
    /\ ENABLED CaptionPoll => attempts < max_attempts
    /\ (pc = "Captioning" /\ cjob # NoJob) =>
          IF attempts < max_attempts
          THEN ENABLED CaptionPoll /\ ~ENABLED CaptionTimeout
          ELSE ENABLED CaptionTimeout /\ ~ENABLED CaptionPoll
    /\ (caption_error = "JobTimeout" \/ error = "JobTimeout") =>
          /\ attempts = max_attempts
          /\ cjob.status = "pending"
          /\ cjob.downloads = 0
    /\ cjob.status \in Terminal => attempts < max_attempts

C30_Witness ==
    /\ entry = "add_captions"
    /\ pc = "Returned"
    /\ cjob.status = "completed"
    /\ cjob.downloads = 1
    /\ attempts = max_attempts - 1
    /\ final_path = CaptionedPath(compiled_video_path, "output")

\* a call of get_context that has come back, its keywords all declared
KontextCalled ==
    /\ kontext.state = "client"
    /\ kontext.calls > 0
    /\ kontext.call.keywords = {}

\* C27: the client validates before it sends: constructed with an empty API
\* key it raises KontextError MISSING_API_KEY and no client exists; get_context
\* with a user_id that is empty or is not a string raises KontextError
\* INVALID_USER_ID, and no request was sent for that call; every request that
\* was sent carries a non-empty string user_id.
C27_ValidatedBeforeRequest ==
    /\ kontext.state = "unconstructed" <=>
          (kontext.state # "new" /\ kontext.api_key \in {PyStr(""), PyNone})
    /\ kontext.state = "unconstructed" =>
          /\ kontext.raised = KontextError("MISSING_API_KEY", 400)
          /\ kontext.requests = 0 /\ kontext.calls = 0
          /\ ~ENABLED KontextGetContext
    /\ (KontextCalled /\ (kontext.call.user_id.type # "str" \/ kontext.call.user_id.s = "")) =>
          /\ kontext.raised = KontextError("INVALID_USER_ID", 400)
          /\ ~kontext.call.sent
    /\ kontext.call.sent =>
          /\ kontext.call.user_id.type = "str"
          /\ kontext.call.user_id.s # ""
    /\ kontext.requests <= kontext.calls

C27_Witness ==
    /\ KontextCalled
    /\ kontext.calls = 2
    /\ kontext.requests = 1
    /\ kontext.call.user_id = PyInt(42)
    /\ kontext.raised.code = "INVALID_USER_ID"
    /\ ~kontext.call.sent

\* C28: get_context(user_id="test-user", privacy_level="invalid") ends with a
\* KontextError, an error that carries a code, as Test 4 of test_client.py
\* expects.
C28_PrivacyLevelRejected ==
    (/\ kontext.state = "client"
     /\ kontext.calls > 0
     /\ kontext.api_key = PyStr("ktext_test")
     /\ kontext.call.user_id = PyStr("test-user")
     /\ kontext.call.task = "general"
     /\ kontext.call.max_tokens = PyNone
     /\ "privacy_level" \in kontext.call.keywords) =>
        /\ kontext.raised.type = "KontextError"
        /\ kontext.raised.code # "none"

\* the external jobs that were submitted and have not reached a terminal status
OpenJobs == { job \in AllJobs : job.status \notin Terminal }

\* C31: execution is sequential: at most one submitted job is not terminal at
\* any moment; the lip-sync job of list position k + 1 exists only when the
\* job of position k has completed and its artifact is recorded; the
\* captioning job exists only when every lip-sync job has completed; and in a
\* run that parsed its segments the positions are the segment indices,
\* ascending, in both stages.
C31_Sequential ==
    /\ Cardinality(OpenJobs) <= 1
    /\ Len(vjobs) <= Len(video_files) + 1
    /\ \A k \in DOMAIN vjobs :
          /\ vjobs[k].segment = k - 1
          /\ k < Len(vjobs) => vjobs[k].status = "completed"
          /\ k <= Len(video_files) =>
                /\ vjobs[k].status = "completed"
                /\ video_files[k].segment_index = audio_files[k].segment_index
    /\ cjob # NoJob => \A k \in DOMAIN vjobs : vjobs[k].status = "completed"
    /\ entry \in {"full_pipeline", "parse_clips_json"} =>
          /\ \A k \in DOMAIN audio_files : audio_files[k].segment_index = k - 1
          /\ \A k \in DOMAIN video_files : video_files[k].segment_index = k - 1
          /\ vjobs # <<>> => Len(audio_files) = Len(segments)

C31_Witness ==
    /\ entry = "full_pipeline"
    /\ Len(audio_files) = 2
    /\ Len(vjobs) = 2
    /\ Len(video_files) = 1
    /\ vjobs[1].status = "completed"
    /\ vjobs[2].status = "pending"
    /\ vpc = "sleep"

\* C32: for a non-empty list of N artifacts (segment_index pairwise distinct)
\* the filter graph has N scale/pad/setsar chains, chain k reading the video
\* of input k - 1 into label k - 1; concat declares n = N, one video and one
\* audio output; the k-th concat entry joins the scaled video of input k - 1
\* with the audio stream of the same input, input k - 1 being the file of the
\* artifact of rank k; so every input file appears exactly once.
C32_FilterGraphShape ==
    (command # NoCommand /\ DistinctIndex(video_files)) =>
        LET N == Len(video_files)
            S == Range(video_files)
        IN  /\ N > 0
            /\ Len(command.input_args) = N
            /\ Len(command.scaling_parts) = N
            /\ Len(command.concat_inputs) = N
            /\ command.num_segments = N
            /\ command.concat_outputs = [v |-> 1, a |-> 1]
            /\ \A k \in 1..N :
                 /\ command.scaling_parts[k].input = k - 1
                 /\ command.scaling_parts[k].scale = <<target_width, target_height>>
                 /\ command.scaling_parts[k].pad = <<target_width, target_height>>
                 /\ command.scaling_parts[k].setsar = 1
                 /\ command.concat_inputs[k].video = command.scaling_parts[k].output
                 /\ command.concat_inputs[k].audio = command.scaling_parts[k].input
                 /\ command.input_args[k] = AbsPath(ByRank(S, k).video_path)
            /\ \A i \in 0..(N - 1) :
                 /\ Cardinality({ k \in 1..N : command.concat_inputs[k].video = i }) = 1
                 /\ Cardinality({ k \in 1..N : command.concat_inputs[k].audio = i }) = 1

C32_Witness ==
    /\ entry = "compile_podcast"
    /\ command # NoCommand
    /\ Len(video_files) = 3
    /\ video_files[1].segment_index = 1
    /\ video_files[2].segment_index = 2
    /\ video_files[3].segment_index = 0
    /\ video_files[1].speaker # video_files[3].speaker

\* a step of the stage that consumes the list leaves the list as it was
SegmentsRead == pc = "Synthesizing" => segments' = segments
AudioFilesRead == pc = "VideoSynthesis" => audio_files' = audio_files
VideoFilesRead == pc = "Composing" => video_files' = video_files

\* C33: consumption is read-only: no step of generate_all_audio changes the
\* segment list, no step of generate_all_videos changes the audio artifacts
\* or their order, and compile_podcast leaves the list of video artifacts it
\* was given as it was (the sorted list is a new one).
C33_ReadOnlyConsumption ==
    [][SegmentsRead /\ AudioFilesRead /\ VideoFilesRead]_vars

C33_Witness ==
    /\ entry = "compile_podcast"
    /\ pc = "Returned"
    /\ Len(video_files) = 2
    /\ video_files[1].segment_index = 2
    /\ video_files[2].segment_index = 1
    /\ command.input_args[1] = AbsPath(video_files[2].video_path)
    /\ command.input_args[1] # AbsPath(video_files[1].video_path)

\* the audio record whose synthesis wrote the file at path last
LastWritten(path) ==
    LET writers == { k \in DOMAIN audio_files : audio_files[k].audio_path = path }
    IN  audio_files[CHOOSE k \in writers : \A j \in writers : j <= k]

\* C34: when generate_all_audio has returned and the lip-sync stage reads
\* the audio file of segment k, the file holds the speech synthesized from
\* the text of segment k with the voice of its speaker: no later segment's
\* synthesis has written over it.
C34_AudioFileHoldsSegment ==
    (entry \in {"full_pipeline", "parse_clips_json"}
        /\ pc \in {"VideoSynthesis", "Returned"}) =>
        \A k \in DOMAIN audio_files :
            /\ LastWritten(audio_files[k].audio_path).text = segments[k].text
            /\ LastWritten(audio_files[k].audio_path).speaker = segments[k].speaker

\* C35: once full_pipeline has validated the requested clip_index against a
\* non-empty clips_ranked, the index it selects the clip with and hands to
\* parse_clips_json lies in 0..len(clips_ranked)-1, and the segments are
\* those of the clip at that index.
C35_ClipIndexInRange ==
    (entry = "full_pipeline"
        /\ pc \notin {"Analyzing", "LoadingTranscript", "ClipSelection"}
        /\ Get(clips_result, "clips_ranked", <<>>) # <<>>) =>
        /\ clip_index \in 0..(Len(clips_result.clips_ranked) - 1)
        /\ pc \in {"Synthesizing", "VideoSynthesis", "Composing", "Captioning", "Done"} =>
              segments = ConvertLines(clips_result.clips_ranked[clip_index + 1].dialogue_lines)

\* C36: the file the captioning step writes is never the compositor's output
\* file: for every composed video the captioned path differs from its path,
\* a captioned result is returned under that other path, and the path
\* returned after a captioning failure is the path ffmpeg wrote, composed by
\* a run that exited with 0.
C36_CaptionLeavesComposedVideo ==
    /\ compiled_video_path # NoPath =>
          CaptionedPath(compiled_video_path, "output") # compiled_video_path
    /\ (pc \in {"Done", "Returned"} /\ cjob.downloads = 1 /\ caption_error = "none"
            /\ entry \in {"full_pipeline", "add_captions"}) =>
          /\ final_path # NoPath
          /\ final_path # compiled_video_path
    /\ (entry = "full_pipeline" /\ caption_error # "none") =>
          /\ final_path = compiled_video_path
          /\ final_path = command.output
          /\ result.returncode = 0
          /\ result # NoRun

C36_Witness ==
    /\ entry = "full_pipeline"
    /\ pc = "Done"
    /\ caption_error = "DownloadError"
    /\ cjob.downloads = 1
    /\ final_path = command.output
    /\ final_path = PipelineOutputPath(clip_index)

\* C37: compile_with_custom_settings called without extra settings does what
\* compile_podcast does with the same list: for the empty list it fails
\* without running ffmpeg, for any other list it runs ffmpeg with the inputs
\* and the filter graph of compile_podcast's command.
C37_CustomEquivalent ==
    (entry = "compile_with_custom_settings" /\ pc # "Composing"
        /\ Get(command, "settings", <<>>) = <<>>) =>
        IF EmptyInput(video_files)
        THEN /\ pc = "Failed"
             /\ command = NoCommand
             /\ result = NoRun
        ELSE /\ command.input_args = BuildCommand(video_files, command.output).input_args
             /\ FilterGraph(command) = FilterGraph(BuildCommand(video_files, command.output))

\* C38: the enhancement loop keeps the number and the positions of the
\* clips: the list it returns is as long as the list it was given, position
\* p holds the answer for the clip that was at position p (same rank), a
\* clip whose request failed is there unchanged, and every other clip is
\* there enhanced.
C38_EnhancementKeepsPositions ==
    [][(pc = "Enhancing" /\ "clips_ranked" \in DOMAIN clips_result) =>
          LET before == clips_result.clips_ranked
              after == clips_result'.clips_ranked
          IN  /\ Len(after) = Len(before)
              /\ \A p \in DOMAIN before :
                    /\ after[p].rank = before[p].rank
                    /\ Fault("enhance_clip", p) \in faults => after[p] = before[p]
                    /\ Fault("enhance_clip", p) \notin faults => after[p].enhanced]_vars

C38_Witness ==
    /\ entry = "generate_clips_from_transcript"
    /\ pc = "Returned"
    /\ faults = { Fault("enhance_clip", 2) }
    /\ absorbed = faults
    /\ Len(clips_result.clips_ranked) = 3
    /\ \A p \in 1..3 : clips_result.clips_ranked[p].rank = p
    /\ clips_result.clips_ranked[1].enhanced
    /\ ~clips_result.clips_ranked[2].enhanced
    /\ clips_result.clips_ranked[3].enhanced
    /\ Len(clips_result.clips_ranked[1].dialogue_lines) = 2
    /\ Len(clips_result.clips_ranked[2].dialogue_lines) = 1

====
